---------------------------- MODULE Spec2Model ----------------------------
(***************************************************************************)
(* git-springclean: the checks of one repository (src/src/checks.rs), the  *)
(* aggregator git_repo_ok, the directory walker for_all_git_repos and the  *)
(* exit status of main (src/src/main.rs).                                  *)
(*                                                                         *)
(* A Rust String is a sequence of one-character strings; a few fixed texts *)
(* (the (P) prefix, a command's stderr text, "[Error") are one element.    *)
(***************************************************************************)
EXTENDS Integers, Sequences, FiniteSets, TLC

VARIABLES
    args,             \* checks.rs Args: the five flags
    pc,               \* position inside git_repo_ok / check_unpushed_branches
    checkIdx,         \* index of the next check of ALL_CHECKS (main.rs:85)
    outcome,          \* the CheckResult a check has just returned
    acc,              \* git_repo_ok's summary, errors, verbose (main.rs:81-83)
    local_branches,   \* checks.rs:99, the BranchSet
    remote_branches,  \* checks.rs:100, the remotes the loop has not reached yet
    merged,           \* checks.rs:106, the merged names not yet processed
    branchLines,      \* history: the lines `git branch` printed
    localInit,        \* history: what the local branch query returned
    remoteInit,       \* history: what the remote branch query returned
    mergedLog,        \* history: each merged query: remote, BranchSet then, answer
    statusLines,      \* history: the lines of the status query's output
    checkOut,         \* history: the CheckResult of each check, by check name
    report,           \* what git_repo_ok printed and returned
    stack,            \* for_all_git_repos: the active calls, innermost last
    walkRet,          \* for_all_git_repos: the outermost call's return value
    calls,            \* history: the callback's invocations, in order
    roots,            \* history: the directories read that hold a .git directory
    entered,          \* history: the directories recursed into from such a directory
    wpc,              \* walker position
    walkCount,        \* main: what for_all_git_repos returned
    pathReadable,     \* main: metadata(&path) is Ok
    exitStatus,       \* main: the status the parent process sees
    mpc               \* main position

repoVars == <<args, pc, checkIdx, outcome, acc, local_branches, remote_branches, merged,
              branchLines, localInit, remoteInit, mergedLog, statusLines, checkOut, report>>
walkVars == <<stack, walkRet, calls, roots, entered, wpc>>
mainVars == <<walkCount, pathReadable, exitStatus, mpc>>
vars == <<repoVars, walkVars, mainVars>>

(***************************************************************************)
(* Bounds                                                                  *)
(***************************************************************************)
MaxLines == 3      \* lines of a branch or status listing
MaxDepth == 2      \* directory levels below the starting path
MaxCount == 300    \* largest count of non-clean repositories main is given

(***************************************************************************)
(* Strings                                                                 *)
(***************************************************************************)
Range(s) == {s[i] : i \in 1..Len(s)}

WhiteSpace == {" ", "\t", "\r", "\n"}

GIT_TRIM == {" ", "\r", "\t", "*"}

RECURSIVE TrimStart(_, _)
TrimStart(s, set) ==
    IF s # <<>> /\ Head(s) \in set THEN TrimStart(Tail(s), set) ELSE s

RECURSIVE TrimEnd(_, _)
TrimEnd(s, set) ==
    IF s # <<>> /\ s[Len(s)] \in set
    THEN TrimEnd(SubSeq(s, 1, Len(s) - 1), set)
    ELSE s

\* str::trim_matches(&[char])
TrimMatches(s, set) == TrimEnd(TrimStart(s, set), set)

\* str::trim
Trim(s) == TrimMatches(s, WhiteSpace)

\* str::starts_with
StartsWith(s, p) == Len(s) >= Len(p) /\ SubSeq(s, 1, Len(p)) = p

\* str::lines: split at "\n", a final empty piece dropped, one trailing "\r" cut
RECURSIVE SplitNl(_, _)
SplitNl(s, cur) ==
    IF s = <<>> THEN (IF cur = <<>> THEN <<>> ELSE <<cur>>)
    ELSE IF Head(s) = "\n" THEN <<cur>> \o SplitNl(Tail(s), <<>>)
    ELSE SplitNl(Tail(s), Append(cur, Head(s)))

CutCr(l) == IF l # <<>> /\ l[Len(l)] = "\r" THEN SubSeq(l, 1, Len(l) - 1) ELSE l

Lines(s) == [i \in 1..Len(SplitNl(s, <<>>)) |-> CutCr(SplitNl(s, <<>>)[i])]

\* str::split_whitespace().next(): <<>> stands for None
RECURSIVE TakeWord(_)
TakeWord(s) ==
    IF s = <<>> \/ Head(s) \in WhiteSpace THEN <<>>
    ELSE <<Head(s)>> \o TakeWord(Tail(s))

FirstWord(s) == TakeWord(TrimStart(s, WhiteSpace))

\* what a command wrote, from the lines it printed
RECURSIVE Unlines(_)
Unlines(ls) == IF ls = <<>> THEN <<>> ELSE Head(ls) \o <<"\n">> \o Unlines(Tail(ls))

\* the sequences over S of at most n elements, no element twice
RECURSIVE DistinctSeqs(_, _)
DistinctSeqs(S, n) ==
    IF n = 0 THEN {<<>>}
    ELSE LET shorter == DistinctSeqs(S, n - 1)
         IN  shorter \cup UNION {{Append(s, x) : x \in S \ Range(s)} :
                                    s \in {t \in shorter : Len(t) = n - 1}}

\* the sub-sequences of s: some elements left out, the order kept
RECURSIVE SubSeqs(_)
SubSeqs(s) ==
    IF s = <<>> THEN {<<>>}
    ELSE LET rest == SubSeqs(Tail(s))
         IN  rest \cup {<<Head(s)>> \o t : t \in rest}

(***************************************************************************)
(* What the git commands can answer                                        *)
(***************************************************************************)
\* `git branch` in a repository with every branch the model knows, sorted by
\* name as git prints them: a detached HEAD, and two branches checked out in
\* linked worktrees (marked +)
BranchListing ==
    << <<"*", " ", "(", "n", "o", " ", "b", "r", "a", "n", "c", "h", ")">>,
       <<" ", " ", "f", "e", "a", "t", "u", "r", "e">>,
       <<"+", " ", "f", "i", "x">>,
       <<"+", " ", "h", "o", "t">>,
       <<" ", " ", "m", "a", "i", "n">> >>

\* `git branch -r` with every remote branch the model knows
RemoteListing ==
    << <<" ", " ", "f", "o", "r", "k", "/", "m", "a", "i", "n">>,
       <<" ", " ", "o", "r", "i", "g", "i", "n", "/", "H", "E", "A", "D", " ", "-", ">", " ", "o", "r", "i", "g", "i", "n", "/", "m", "a", "i", "n">>,
       <<" ", " ", "o", "r", "i", "g", "i", "n", "/", "m", "a", "i", "n">> >>

\* lines of `git status --porcelain`, and a blank line
StatusLines ==
    { <<"?", "?", " ", "n", "e", "w">>,
      <<"?", "?", " ", "t", "m", "p">>,
      <<" ", "M", " ", "o", "l", "d">>,
      <<>> }

GitFailure == <<"fatal: not a git repository">>

\* std::process::Output: status.success(), stdout, stderr
Succeeded(out) == [ok |-> TRUE, stdout |-> out, stderr |-> <<>>]
Failed(text) == [ok |-> FALSE, stdout |-> <<>>, stderr |-> text]

\* `git branch`: the repository has at most MaxLines of the branches
BranchQueryResults ==
    {Succeeded(Unlines(ls)) : ls \in {t \in SubSeqs(BranchListing) : Len(t) <= MaxLines}}
        \cup {Failed(GitFailure)}

\* `git branch -r`
RemoteQueryResults ==
    {Succeeded(Unlines(ls)) : ls \in SubSeqs(RemoteListing)} \cup {Failed(GitFailure)}

\* `git branch --merged <remote>`: some of the lines `git branch` printed
MergedQueryResults(printed) ==
    {Succeeded(Unlines(ls)) : ls \in SubSeqs(printed)} \cup {Failed(GitFailure)}

\* `git status --porcelain`
StatusQueryResults ==
    {Succeeded(Unlines(ls)) : ls \in DistinctSeqs(StatusLines, MaxLines)}
        \cup {Failed(GitFailure)}

\* Args without flag_version (main returns before any check) and arg_path
ArgsSet ==
    [flag_all : BOOLEAN, flag_no_untracked : BOOLEAN, flag_no_modified : BOOLEAN,
     flag_no_unpushed : BOOLEAN, flag_verbose : BOOLEAN]

(***************************************************************************)
(* checks.rs                                                               *)
(***************************************************************************)
\* CheckResult = Result<(String, String), String>
Ok(sum, msg) == [ok |-> TRUE, sum |-> sum, msg |-> msg, err |-> <<>>]
Err(e) == [ok |-> FALSE, sum |-> <<>>, msg |-> <<>>, err |-> e]

\* Result<Vec<String>, String>
ListOk(l) == [ok |-> TRUE, list |-> l, err |-> <<>>]
ListErr(e) == [ok |-> FALSE, list |-> <<>>, err |-> e]

\* checks.rs:43-49
RECURSIVE BranchNames(_)
BranchNames(lines) ==
    IF lines = <<>> THEN <<>>
    ELSE LET line == TrimMatches(Head(lines), GIT_TRIM)
             branch == FirstWord(line)
         IN  IF line # <<>> /\ ~StartsWith(line, <<"(">>) /\ branch # <<>>
             THEN <<branch>> \o BranchNames(Tail(lines))
             ELSE BranchNames(Tail(lines))

git_branch_list(out) ==
    IF ~out.ok THEN ListErr(out.stderr)
    ELSE ListOk(BranchNames(Lines(out.stdout)))

\* checks.rs:72-78
RECURSIVE ScanStatus(_, _, _)
ScanStatus(lines, a, flags) ==
    IF lines = <<>> THEN flags
    ELSE LET line == Trim(Head(lines))
         IN  IF StartsWith(line, <<"?", "?">>)
             THEN ScanStatus(Tail(lines), a,
                             [flags EXCEPT !.untracked = ~a.flag_no_untracked])
             ELSE ScanStatus(Tail(lines), a,
                             [flags EXCEPT !.modified = ~a.flag_no_modified])

check_untracked_modified(out, a) ==
    IF ~out.ok THEN Err(out.stderr)
    ELSE LET flags == ScanStatus(Lines(out.stdout), a,
                                 [untracked |-> FALSE, modified |-> FALSE])
         IN  Ok((IF flags.untracked THEN <<"U">> ELSE <<>>)
                    \o (IF flags.modified THEN <<"M">> ELSE <<>>),
                <<>>)

\* checks.rs:108, Iterator::position: 0 stands for None
Position(list, b) ==
    IF \E i \in 1..Len(list) : list[i] = b
    THEN CHOOSE i \in 1..Len(list) :
             list[i] = b /\ \A j \in 1..(i - 1) : list[j] # b
    ELSE 0

\* Vec::remove
Remove(list, pos) == SubSeq(list, 1, pos - 1) \o SubSeq(list, pos + 1, Len(list))

\* Vec::swap_remove: the last element takes the removed one's place
SwapRemove(list, pos) ==
    IF pos = Len(list) THEN SubSeq(list, 1, pos - 1)
    ELSE [i \in 1..(Len(list) - 1) |-> IF i = pos THEN list[Len(list)] ELSE list[i]]

RemoveMergedSwapped(list, branch) ==
    IF Position(list, branch) # 0 THEN SwapRemove(list, Position(list, branch)) ELSE list

\* checks.rs:108-110
RemoveMerged(list, branch) ==
    IF Position(list, branch) # 0 THEN Remove(list, Position(list, branch)) ELSE list

RemoteLoopEndsNoBreak(remotes, locals) == remotes = <<>>

\* checks.rs:102-105: the remotes are exhausted, or the break
RemoteLoopEnds(remotes, locals) == remotes = <<>> \/ locals = <<>>

PushedPrefix == <<"(P) The following branches were not pushed to any remote: ">>

RECURSIVE FoldDescNoComma(_, _)
FoldDescNoComma(branches, a) ==
    IF branches = <<>> THEN a
    ELSE FoldDescNoComma(Tail(branches), a \o Head(branches))

\* checks.rs:115-116
RECURSIVE FoldDesc(_, _)
FoldDesc(branches, a) ==
    IF branches = <<>> THEN a
    ELSE FoldDesc(Tail(branches),
                  (IF a # <<>> THEN a \o <<",", " ">> ELSE a) \o Head(branches))

\* checks.rs:114-121
UnpushedOutcome(locals) ==
    IF locals # <<>>
    THEN Ok(<<"P">>, PushedPrefix \o FoldDesc(locals, <<>>))
    ELSE Ok(<<>>, <<>>)

ALL_CHECKS_StatusFirst == <<"check_untracked_modified", "check_unpushed_branches">>

\* checks.rs:124-127
ALL_CHECKS == <<"check_unpushed_branches", "check_untracked_modified">>

(***************************************************************************)
(* main.rs: git_repo_ok                                                    *)
(***************************************************************************)
NoOutcome == Ok(<<>>, <<>>)

EmptyAcc == [summary |-> <<>>, errors |-> <<>>, verbose |-> <<>>]

\* main.rs:86-92
Collect(a, r) ==
    IF ~r.ok THEN [a EXCEPT !.errors = Append(@, r.err)]
    ELSE [a EXCEPT !.summary = @ \o r.sum, !.verbose = Append(@, r.msg)]

\* format!("{:<4}", s)
RECURSIVE PadLeft4(_)
PadLeft4(s) == IF Len(s) >= 4 THEN s ELSE PadLeft4(Append(s, " "))

\* Path::to_string_lossy of a path given by its components
RECURSIVE PathString(_)
PathString(p) ==
    IF p = <<>> THEN <<>> ELSE <<"/">> \o <<Head(p)>> \o PathString(Tail(p))

NonEmptyMsg(m) == m # <<>>

NoReport == [done |-> FALSE, summary |-> <<>>, stdout |-> <<>>, stderr |-> <<>>,
             ret |-> FALSE]

SummaryWithErrorsUnmarked(a) == a.summary

\* main.rs:95-97
SummaryWithErrors(a) ==
    IF a.errors # <<>> THEN Append(a.summary, "E") ELSE a.summary

\* main.rs:95-116
RepoReport(a, flags, p) ==
    LET summary == SummaryWithErrors(a)
        shown == summary # <<>> \/ flags.flag_all
    IN  [done |-> TRUE,
         summary |-> summary,
         stdout |-> IF ~shown THEN <<>>
                    ELSE <<PadLeft4(summary) \o <<" ">> \o PathString(p)>>
                           \o (IF flags.flag_verbose
                               THEN SelectSeq(a.verbose, NonEmptyMsg)
                               ELSE <<>>),
         stderr |-> IF ~shown THEN <<>>
                    ELSE [n \in 1..Len(a.errors) |->
                             <<"[Error", ToString(n - 1), "]:">> \o a.errors[n]],
         ret |-> summary = <<>>]

\* main.rs:85-93 over the checks' results, in ALL_CHECKS order
RECURSIVE CollectAll(_, _)
CollectAll(a, results) ==
    IF results = <<>> THEN a
    ELSE CollectAll(Collect(a, Head(results)), Tail(results))

\* main.rs:79-117
git_repo_ok(results, flags, p) == RepoReport(CollectAll(EmptyAcc, results), flags, p)

(***************************************************************************)
(* One run of git_repo_ok on one repository, the unpushed check stepwise   *)
(***************************************************************************)
RepoPath == <<"work", "repo">>

WalkIdle ==
    /\ stack = <<>>
    /\ walkRet = -1
    /\ calls = <<>>
    /\ roots = {}
    /\ entered = {}
    /\ wpc = "idle"

MainIdle ==
    /\ walkCount = 0
    /\ pathReadable = TRUE
    /\ exitStatus = -1
    /\ mpc = "idle"

RepoIdle ==
    /\ pc = "idle"
    /\ checkIdx = 1
    /\ outcome = NoOutcome
    /\ acc = EmptyAcc
    /\ local_branches = <<>>
    /\ remote_branches = <<>>
    /\ merged = <<>>
    /\ branchLines = <<>>
    /\ localInit = <<>>
    /\ remoteInit = <<>>
    /\ mergedLog = <<>>
    /\ statusLines = <<>>
    /\ checkOut = <<>>
    /\ report = NoReport

InitRepo ==
    /\ args \in ArgsSet
    /\ pc = "checks"
    /\ checkIdx = 1
    /\ outcome = NoOutcome
    /\ acc = EmptyAcc
    /\ local_branches = <<>>
    /\ remote_branches = <<>>
    /\ merged = <<>>
    /\ branchLines = <<>>
    /\ localInit = <<>>
    /\ remoteInit = <<>>
    /\ mergedLog = <<>>
    /\ statusLines = <<>>
    /\ checkOut = <<>>
    /\ report = NoReport
    /\ WalkIdle
    /\ MainIdle

NextCheckIs(name) ==
    /\ pc = "checks"
    /\ checkIdx <= Len(ALL_CHECKS)
    /\ ALL_CHECKS[checkIdx] = name

\* the check returns r: its caller has it next
Return(r) ==
    /\ outcome' = r
    /\ pc' = "check_return"

\* checks.rs:56-88
RunUntrackedModified ==
    /\ NextCheckIs("check_untracked_modified")
    /\ \E out \in StatusQueryResults :
          /\ statusLines' = Lines(out.stdout)
          /\ Return(check_untracked_modified(out, args))
    /\ UNCHANGED <<args, checkIdx, acc, local_branches, remote_branches, merged,
                   branchLines, localInit, remoteInit, mergedLog, checkOut, report>>
    /\ UNCHANGED <<walkVars, mainVars>>

\* checks.rs:95-100
UnpushedStart ==
    /\ NextCheckIs("check_unpushed_branches")
    /\ IF args.flag_no_unpushed
       THEN /\ Return(Ok(<<>>, <<>>))
            /\ UNCHANGED <<local_branches, remote_branches, branchLines, localInit,
                           remoteInit>>
       ELSE \E lout \in BranchQueryResults, rout \in RemoteQueryResults :
               LET l == git_branch_list(lout)
                   r == git_branch_list(rout)
               IN  IF ~l.ok
                   THEN /\ Return(Err(l.err))
                        /\ UNCHANGED <<local_branches, remote_branches, branchLines,
                                       localInit, remoteInit>>
                   ELSE IF ~r.ok
                   THEN /\ Return(Err(r.err))
                        /\ local_branches' = l.list
                        /\ localInit' = l.list
                        /\ branchLines' = Lines(lout.stdout)
                        /\ UNCHANGED <<remote_branches, remoteInit>>
                   ELSE /\ local_branches' = l.list
                        /\ localInit' = l.list
                        /\ branchLines' = Lines(lout.stdout)
                        /\ remote_branches' = r.list
                        /\ remoteInit' = r.list
                        /\ pc' = "remote_loop"
                        /\ UNCHANGED outcome
    /\ UNCHANGED <<args, checkIdx, acc, merged, mergedLog, statusLines, checkOut,
                   report>>
    /\ UNCHANGED <<walkVars, mainVars>>

\* checks.rs:102-106 and, when the loop ends, 114-121
UnpushedRemoteLoop ==
    /\ pc = "remote_loop"
    /\ IF RemoteLoopEnds(remote_branches, local_branches)
       THEN /\ Return(UnpushedOutcome(local_branches))
            /\ UNCHANGED <<remote_branches, merged, mergedLog>>
       ELSE \E mout \in MergedQueryResults(branchLines) :
               LET m == git_branch_list(mout)
               IN  /\ mergedLog' = Append(mergedLog,
                                          [remote |-> Head(remote_branches),
                                           branchSet |-> local_branches,
                                           ok |-> m.ok,
                                           merged |-> m.list])
                   /\ remote_branches' = Tail(remote_branches)
                   /\ IF ~m.ok
                      THEN /\ Return(Err(m.err))
                           /\ UNCHANGED merged
                      ELSE /\ merged' = m.list
                           /\ pc' = "merged_loop"
                           /\ UNCHANGED outcome
    /\ UNCHANGED <<args, checkIdx, acc, local_branches, branchLines, localInit,
                   remoteInit, statusLines, checkOut, report>>
    /\ UNCHANGED <<walkVars, mainVars>>

\* checks.rs:107-111
UnpushedMergedLoop ==
    /\ pc = "merged_loop"
    /\ IF merged = <<>>
       THEN /\ pc' = "remote_loop"
            /\ UNCHANGED <<local_branches, merged>>
       ELSE /\ local_branches' = RemoveMerged(local_branches, Head(merged))
            /\ merged' = Tail(merged)
            /\ UNCHANGED pc
    /\ UNCHANGED <<args, checkIdx, acc, outcome, remote_branches, branchLines,
                   localInit, remoteInit, mergedLog, statusLines, checkOut, report>>
    /\ UNCHANGED <<walkVars, mainVars>>

\* main.rs:86-92: the check's locals are gone, its result is collected
CheckReturn ==
    /\ pc = "check_return"
    /\ acc' = Collect(acc, outcome)
    /\ checkOut' = Append(checkOut, [name |-> ALL_CHECKS[checkIdx], result |-> outcome])
    /\ checkIdx' = checkIdx + 1
    /\ pc' = "checks"
    /\ outcome' = NoOutcome
    /\ local_branches' = <<>>
    /\ remote_branches' = <<>>
    /\ merged' = <<>>
    /\ branchLines' = <<>>
    /\ localInit' = <<>>
    /\ remoteInit' = <<>>
    /\ mergedLog' = <<>>
    /\ statusLines' = <<>>
    /\ UNCHANGED <<args, report>>
    /\ UNCHANGED <<walkVars, mainVars>>

\* main.rs:95-116
Report ==
    /\ pc = "checks"
    /\ checkIdx > Len(ALL_CHECKS)
    /\ report' = RepoReport(acc, args, RepoPath)
    /\ pc' = "done"
    /\ UNCHANGED <<args, checkIdx, acc, outcome, local_branches, remote_branches,
                   merged, branchLines, localInit, remoteInit, mergedLog, statusLines,
                   checkOut>>
    /\ UNCHANGED <<walkVars, mainVars>>

NextRepo ==
    \/ RunUntrackedModified
    \/ UnpushedStart
    \/ UnpushedRemoteLoop
    \/ UnpushedMergedLoop
    \/ CheckReturn
    \/ Report

SpecRepo == InitRepo /\ [][NextRepo]_vars

(***************************************************************************)
(* main.rs: for_all_git_repos, with git_repo_ok as the callback, and main  *)
(***************************************************************************)
StartPath == <<"root">>

DirEntry(n) == [kind |-> "dir", name |-> n]
FileEntry(n) == [kind |-> "file", name |-> n]
\* an entry read_dir yields as Err, or whose file_type() is Err
BadEntry == [kind |-> "bad", name |-> "?"]

\* what a directory can hold
DirectoryContents ==
    { {},
      {DirEntry(".git")},
      {DirEntry("b")},
      {DirEntry("a"), DirEntry("b")},
      {DirEntry(".git"), DirEntry("a")},
      {FileEntry(".git"), BadEntry} }

\* the orders read_dir can list a directory's entries in
Listings(contents) == {l \in DistinctSeqs(contents, Cardinality(contents)) :
                          Len(l) = Cardinality(contents)}

IsSubdirectory(e) == e.kind = "dir" /\ e.name # ".git"

\* what the directory at p can hold: MaxDepth levels down no directory has
\* subdirectories, and only the starting directory has two
ContentsAt(p) ==
    {c \in DirectoryContents :
        /\ Len(p) - 1 < MaxDepth \/ ~\E e \in c : IsSubdirectory(e)
        /\ p = StartPath \/ Cardinality({e \in c : IsSubdirectory(e)}) <= 1}

\* read_dir(p): Err, or the entries in some order
ReadDirResults(p) ==
    {[ok |-> FALSE, entries |-> <<>>]}
        \cup {[ok |-> TRUE, entries |-> l] : l \in UNION {Listings(c) : c \in ContentsAt(p)}}

NoFlags == [flag_all |-> FALSE, flag_no_untracked |-> FALSE, flag_no_modified |-> FALSE,
            flag_no_unpushed |-> FALSE, flag_verbose |-> FALSE]

\* what each check can return when it is not suppressed (suppressed, it
\* returns some of these)
CheckOutcomes(name) ==
    IF name = "check_untracked_modified"
    THEN {check_untracked_modified(out, NoFlags) : out \in StatusQueryResults}
    ELSE { Err(GitFailure),
           UnpushedOutcome(<<>>),
           UnpushedOutcome(<<<<"m", "a", "i", "n">>>>) }

\* the results of the checks of ALL_CHECKS, in that order
CheckResults ==
    {<<r1, r2>> : r1 \in CheckOutcomes(ALL_CHECKS[1]),
                  r2 \in CheckOutcomes(ALL_CHECKS[2])}

HoldsGit(entries) == \E i \in 1..Len(entries) : entries[i] = DirEntry(".git")

Frame(p, entries) == [path |-> p, entries |-> entries, count |-> 0,
                      holdsGit |-> HoldsGit(entries)]

Top == stack[Len(stack)]

SetTop(f) == [stack EXCEPT ![Len(stack)] = f]

NotCleanIncrementInverted(ok) == IF ok THEN 1 ELSE 0

\* main.rs:67-69
NotCleanIncrement(ok) == IF ok THEN 0 ELSE 1

\* no check is suppressed here: a suppressed check returns some of the results
\* an unsuppressed one can return, so CheckResults covers it
InitWalk ==
    /\ args \in {a \in ArgsSet : /\ ~a.flag_no_untracked
                                 /\ ~a.flag_no_modified
                                 /\ ~a.flag_no_unpushed}
    /\ RepoIdle
    /\ stack = <<>>
    /\ walkRet = -1
    /\ calls = <<>>
    /\ roots = {}
    /\ entered = {}
    /\ wpc = "idle"
    /\ walkCount = 0
    /\ pathReadable \in BOOLEAN
    /\ exitStatus = -1
    /\ mpc = "main"

\* main.rs:132-137: metadata(&path), then exit(-1) or the walk
MainStart ==
    /\ mpc = "main"
    /\ IF ~pathReadable
       THEN /\ mpc' = "exit"
            /\ UNCHANGED <<stack, walkRet, roots, wpc>>
       ELSE /\ mpc' = "walking"
            /\ \E rd \in ReadDirResults(StartPath) :
                  IF ~rd.ok
                  THEN /\ walkRet' = 0
                       /\ wpc' = "returned"
                       /\ UNCHANGED <<stack, roots>>
                  ELSE /\ stack' = <<Frame(StartPath, rd.entries)>>
                       /\ roots' = IF HoldsGit(rd.entries) THEN {StartPath} ELSE {}
                       /\ wpc' = "walking"
                       /\ UNCHANGED walkRet
    /\ UNCHANGED <<calls, entered, walkCount, pathReadable, exitStatus>>
    /\ UNCHANGED repoVars

\* main.rs:61-64: the entry is an error, or is no directory
WalkSkip ==
    /\ wpc = "walking"
    /\ Top.entries # <<>>
    /\ Head(Top.entries).kind # "dir"
    /\ stack' = SetTop([Top EXCEPT !.entries = Tail(@)])
    /\ UNCHANGED <<walkRet, calls, roots, entered, wpc>>
    /\ UNCHANGED <<repoVars, mainVars>>

\* main.rs:67: f(p, args), with git_repo_ok (main.rs:79-117) as f
WalkCallback ==
    /\ wpc = "walking"
    /\ Top.entries # <<>>
    /\ Head(Top.entries) = DirEntry(".git")
    /\ \E results \in CheckResults :
          /\ acc' = CollectAll(EmptyAcc, results)
          /\ checkOut' = [i \in 1..Len(results) |->
                             [name |-> ALL_CHECKS[i], result |-> results[i]]]
          /\ report' = git_repo_ok(results, args, Top.path)
    /\ wpc' = "called"
    /\ UNCHANGED <<stack, walkRet, calls, roots, entered>>
    /\ UNCHANGED <<args, pc, checkIdx, outcome, local_branches, remote_branches,
                   merged, branchLines, localInit, remoteInit, mergedLog, statusLines>>
    /\ UNCHANGED mainVars

\* main.rs:67-70: f has returned; count, and break
WalkCount ==
    /\ wpc = "called"
    /\ stack' = SetTop([Top EXCEPT !.count = @ + NotCleanIncrement(report.ret),
                                   !.entries = <<>>])
    /\ calls' = Append(calls, [path |-> Top.path, ok |-> report.ret])
    /\ acc' = EmptyAcc
    /\ checkOut' = <<>>
    /\ report' = NoReport
    /\ wpc' = "walking"
    /\ UNCHANGED <<walkRet, roots, entered>>
    /\ UNCHANGED <<args, pc, checkIdx, outcome, local_branches, remote_branches,
                   merged, branchLines, localInit, remoteInit, mergedLog, statusLines>>
    /\ UNCHANGED mainVars

\* main.rs:71-73 and, in the call made, main.rs:59-60
WalkRecurse ==
    /\ wpc = "walking"
    /\ Top.entries # <<>>
    /\ IsSubdirectory(Head(Top.entries))
    /\ LET child == Append(Top.path, Head(Top.entries).name)
           rest == SetTop([Top EXCEPT !.entries = Tail(@)])
       IN  /\ entered' = IF Top.holdsGit THEN entered \cup {child} ELSE entered
           /\ \E rd \in ReadDirResults(child) :
                 IF ~rd.ok
                 THEN /\ stack' = rest
                      /\ UNCHANGED roots
                 ELSE /\ stack' = Append(rest, Frame(child, rd.entries))
                      /\ roots' = IF HoldsGit(rd.entries) THEN roots \cup {child}
                                  ELSE roots
    /\ UNCHANGED <<walkRet, calls, wpc>>
    /\ UNCHANGED <<repoVars, mainVars>>

\* main.rs:75, and main.rs:72 in the caller
WalkReturn ==
    /\ wpc = "walking"
    /\ Top.entries = <<>>
    /\ IF Len(stack) = 1
       THEN /\ walkRet' = Top.count
            /\ stack' = <<>>
            /\ wpc' = "returned"
       ELSE /\ stack' = [i \in 1..(Len(stack) - 1) |->
                            IF i = Len(stack) - 1
                            THEN [stack[i] EXCEPT !.count = @ + Top.count]
                            ELSE stack[i]]
            /\ UNCHANGED <<walkRet, wpc>>
    /\ UNCHANGED <<calls, roots, entered>>
    /\ UNCHANGED <<repoVars, mainVars>>

\* main.rs:137: for_all_git_repos has returned
MainWalked ==
    /\ mpc = "walking"
    /\ wpc = "returned"
    /\ walkCount' = walkRet
    /\ mpc' = "exit"
    /\ UNCHANGED <<pathReadable, exitStatus>>
    /\ UNCHANGED <<repoVars, walkVars>>

\* std::process::exit(code) on Unix: the parent sees the low 8 bits
ExitStatus(code) == code % (2 ^ 8)

\* main.rs:134 and main.rs:137
MainExit ==
    /\ mpc = "exit"
    /\ exitStatus' = ExitStatus(IF pathReadable THEN walkCount ELSE -1)
    /\ mpc' = "exited"
    /\ UNCHANGED <<walkCount, pathReadable>>
    /\ UNCHANGED <<repoVars, walkVars>>

NextWalk ==
    \/ MainStart
    \/ WalkSkip
    \/ WalkCallback
    \/ WalkCount
    \/ WalkRecurse
    \/ WalkReturn
    \/ MainWalked
    \/ MainExit

SpecWalk == InitWalk /\ [][NextWalk]_vars

(***************************************************************************)
(* main's exit, for every count for_all_git_repos can return up to MaxCount *)
(***************************************************************************)
InitMain ==
    /\ args \in {a \in ArgsSet : \A f \in DOMAIN a : ~a[f]}
    /\ RepoIdle
    /\ WalkIdle
    /\ walkCount \in 0..MaxCount
    /\ pathReadable \in BOOLEAN
    /\ exitStatus = -1
    /\ mpc = "exit"

NextMain == MainExit

SpecMain == InitMain /\ [][NextMain]_vars

(***************************************************************************)
(* Properties of one repository's checks (SpecRepo)                        *)
(***************************************************************************)
HasRun(name) == \E i \in 1..Len(checkOut) : checkOut[i].name = name

ResultOf(name) == checkOut[CHOOSE i \in 1..Len(checkOut) : checkOut[i].name = name].result

AllChecksRan ==
    /\ HasRun("check_untracked_modified")
    /\ HasRun("check_unpushed_branches")

AnyCheckFailed ==
    \/ ~ResultOf("check_untracked_modified").ok
    \/ ~ResultOf("check_unpushed_branches").ok

ErrorMark == IF AnyCheckFailed THEN <<"E">> ELSE <<>>

AtReturnOf(name) ==
    /\ pc = "check_return"
    /\ ALL_CHECKS[checkIdx] = name

\* b1, b2, ... joined by ", "
RECURSIVE JoinComma(_)
JoinComma(names) ==
    IF names = <<>> THEN <<>>
    ELSE IF Len(names) = 1 THEN names[1]
    ELSE names[1] \o <<",", " ">> \o JoinComma(Tail(names))

IsSubSeq(t, s) == t \in SubSeqs(s)

C5_NoRemotesReportsEveryLocalBranch ==
    ( /\ AtReturnOf("check_unpushed_branches")
      /\ ~args.flag_no_unpushed
      /\ outcome.ok
      /\ remoteInit = <<>>
      /\ localInit # <<>> )
    => outcome = Ok(<<"P">>, PushedPrefix \o JoinComma(localInit))

\* C5 witness: no remote branch and at least two local branches, reported.
C5_Witness ==
    /\ AtReturnOf("check_unpushed_branches")
    /\ outcome.ok
    /\ remoteInit = <<>>
    /\ Len(localInit) >= 2
    /\ outcome.sum = <<"P">>

\* C6: every query succeeded and every name of the local branch list is in the
\* merged-branch result of at least one remote: the outcome is the empty outcome.
C6_AllMergedGivesEmptyOutcome ==
    ( /\ AtReturnOf("check_unpushed_branches")
      /\ ~args.flag_no_unpushed
      /\ outcome.ok
      /\ \A b \in Range(localInit) :
            \E i \in 1..Len(mergedLog) : b \in Range(mergedLog[i].merged) )
    => outcome = Ok(<<>>, <<>>)

\* C7: neither check suppressed and the status query succeeded: the code is "UM"
\* exactly when a trimmed line starts with "??" and another line, not empty
\* after trimming, does not.
C7_UMIffUntrackedAndOtherNonEmptyLine ==
    ( /\ AtReturnOf("check_untracked_modified")
      /\ ~args.flag_no_untracked
      /\ ~args.flag_no_modified
      /\ outcome.ok )
    => ( outcome.sum = <<"U", "M">>
         <=> /\ \E i \in 1..Len(statusLines) :
                    StartsWith(Trim(statusLines[i]), <<"?", "?">>)
             /\ \E j \in 1..Len(statusLines) :
                    /\ Trim(statusLines[j]) # <<>>
                    /\ ~StartsWith(Trim(statusLines[j]), <<"?", "?">>) )

\* C9: every merged-branches query was issued with a non-empty BranchSet, and a
\* resolver that ends with an empty BranchSet returns the empty outcome.
C9_MergedQueriedOnlyWhileBranchSetNonEmpty ==
    /\ \A i \in 1..Len(mergedLog) : mergedLog[i].branchSet # <<>>
    /\ ( /\ AtReturnOf("check_unpushed_branches")
         /\ outcome.ok
         /\ local_branches = <<>> )
       => outcome = Ok(<<>>, <<>>)

\* C9 witness: BranchSet became empty while remotes were still to come.
C9_Witness ==
    /\ AtReturnOf("check_unpushed_branches")
    /\ localInit # <<>>
    /\ local_branches = <<>>
    /\ remote_branches # <<>>
    /\ mergedLog # <<>>
    /\ outcome = Ok(<<>>, <<>>)

\* C10: every step of the loop over remotes and merged names leaves BranchSet a
\* sub-sequence of its previous value and of the initial local branch list.
C10_BranchSetOnlyShrinks ==
    [][(pc \in {"remote_loop", "merged_loop"})
         => (IsSubSeq(local_branches', local_branches)
               /\ IsSubSeq(local_branches', localInit))]_vars

\* C10 witness: inside the loop, some names removed and some left.
C10_Witness ==
    /\ pc = "merged_loop"
    /\ local_branches # <<>>
    /\ Len(local_branches) < Len(localInit)

(***************************************************************************)
(* Properties of the walk (SpecWalk) and of main's exit (SpecMain)         *)
(***************************************************************************)
CallsOn(p) == {i \in 1..Len(calls) : calls[i].path = p}

\* the error texts of the checks that failed, in the order the checks ran
RECURSIVE FailureTexts(_)
FailureTexts(outs) ==
    IF outs = <<>> THEN <<>>
    ELSE (IF Head(outs).result.ok THEN <<>> ELSE <<Head(outs).result.err>>)
             \o FailureTexts(Tail(outs))

ErrorLine(n, text) == <<"[Error", ToString(n), "]:">> \o text

\* C2: a directory that directly holds the .git directory gets the callback
\* exactly once, and the walker recurses into none of its subdirectories,
\* whatever the order its entries are listed in.
C2_RepositoryRootCalledOnceNeverDescended ==
    /\ entered = {}
    /\ wpc = "returned" => \A p \in roots : Cardinality(CallsOn(p)) = 1

C8_ExitStatusIsCappedCount ==
    (mpc = "exited" /\ pathReadable) =>
        /\ exitStatus = 0 => walkCount = 0
        /\ exitStatus = IF walkCount > 255 THEN 255 ELSE walkCount

====
